---- MODULE Spec2Model ----
(***************************************************************************)
(* Model of the diagnosis-record service: the file-backed                  *)
(* DiagnosisRepository (list / create / update / delete over one JSON      *)
(* file) and the PredictionClient (diagnose / retrain over HTTP).          *)
(*                                                                         *)
(* Every repository method is synchronous (readFileSync / writeFileSync,   *)
(* no await), and the Express handlers that call them are synchronous too, *)
(* so one method call is one atomic step of the server process.            *)
(***************************************************************************)
EXTENDS Integers, Sequences, FiniteSets, TLC

VARIABLES
    file,        \* the backing file: [state, txt]
    now,         \* the wall clock read by Date.now(), in milliseconds
    last,        \* the most recent repository call: arguments, locals, result
    baseUrl,     \* PredictionClient.baseUrl after the constructor
    phase,       \* position of the client call in flight
    op,          \* which client method is in flight
    payload,     \* argument of the diagnose call in flight
    attempts,    \* axios.post calls issued by the call in flight
    outbound,    \* every axios.post call issued so far
    reply,       \* what axios.post settled with
    outcome,     \* how the client call ended
    invocations  \* client calls started so far

repoVars == <<file, now, last>>
clientVars == <<baseUrl, phase, op, payload, attempts, outbound, reply, outcome, invocations>>
vars == <<file, now, last, baseUrl, phase, op, payload, attempts, outbound, reply, outcome, invocations>>

(***************************************************************************)
(* Bounds of the model.                                                    *)
(***************************************************************************)
MaxRecords == 3      \* create is not issued on a collection of this length
MaxTime == 2         \* the clock stops advancing at this millisecond
MaxInvocations == 2  \* client calls per behaviour

(***************************************************************************)
(* JavaScript values that occur as field values and as id arguments.       *)
(* A string is the sequence of its characters.                             *)
(***************************************************************************)
JsNum(n) == [kind |-> "num", num |-> n, str |-> <<>>]
JsStr(s) == [kind |-> "str", num |-> 0, str |-> s]
JsNull == [kind |-> "null", num |-> 0, str |-> <<>>]
JsNaN == [kind |-> "nan", num |-> 0, str |-> <<>>]

\* a === b
StrictEq(a, b) == a.kind = b.kind /\ a.kind # "nan" /\ a = b

Digits == <<"0", "1", "2", "3", "4", "5", "6", "7", "8", "9">>
IsDigit(c) == \E i \in 1..10 : Digits[i] = c
DigitVal(c) == (CHOOSE i \in 1..10 : Digits[i] = c) - 1

RECURSIVE SkipSpaces(_)
SkipSpaces(s) == IF s # <<>> /\ Head(s) = " " THEN SkipSpaces(Tail(s)) ELSE s

RECURSIVE DigitPrefix(_, _, _)
\* value of the longest run of leading decimal digits; seen = a digit was read
DigitPrefix(s, acc, seen) ==
    IF s # <<>> /\ IsDigit(Head(s))
    THEN DigitPrefix(Tail(s), acc * 10 + DigitVal(Head(s)), TRUE)
    ELSE [seen |-> seen, val |-> acc]

\* parseInt(v) with no radix: a number is returned as it is (integers only
\* occur here), a string is trimmed on the left, an optional sign is read and
\* then the longest prefix of decimal digits; anything after it is ignored.
\* No digit at all gives NaN.  (Strings starting with 0x are not among the
\* strings of the model.)
ParseInt(v) ==
    IF v.kind = "num" THEN v
    ELSE IF v.kind # "str" THEN JsNaN
    ELSE LET s == SkipSpaces(v.str)
             neg == s # <<>> /\ Head(s) = "-"
             body == IF s # <<>> /\ Head(s) \in {"-", "+"} THEN Tail(s) ELSE s
             p == DigitPrefix(body, 0, FALSE)
         IN  IF p.seen THEN JsNum(IF neg THEN 0 - p.val ELSE p.val) ELSE JsNaN

(***************************************************************************)
(* Records are objects: functions from field names to values.              *)
(***************************************************************************)
EmptyDoc == <<>>
Fields == <<"id", "nome">>

\* { ...a, ...b }
Merge(a, b) == [k \in DOMAIN a \cup DOMAIN b |-> IF k \in DOMAIN b THEN b[k] ELSE a[k]]

(***************************************************************************)
(* JSON text is a sequence of tokens.  Whitespace, which                   *)
(* JSON.stringify(list, null, 2) emits for indentation and JSON.parse      *)
(* skips, is not a token.  Keys are written in the order of Fields.        *)
(***************************************************************************)
Tok(t) == [t |-> t, name |-> "", v |-> JsNull]
KeyTok(k) == [t |-> "key", name |-> k, v |-> JsNull]
LitTok(v) == [t |-> "lit", name |-> "", v |-> v]

RECURSIVE StringifyMembers(_, _, _)
StringifyMembers(d, i, first) ==
    IF i > Len(Fields) THEN <<>>
    ELSE IF Fields[i] \in DOMAIN d
    THEN (IF first THEN <<>> ELSE <<Tok(",")>>)
         \o <<KeyTok(Fields[i]), Tok(":"), LitTok(d[Fields[i]])>>
         \o StringifyMembers(d, i + 1, FALSE)
    ELSE StringifyMembers(d, i + 1, first)

StringifyObject(d) == <<Tok("{")>> \o StringifyMembers(d, 1, TRUE) \o <<Tok("}")>>

RECURSIVE StringifyElements(_, _)
StringifyElements(list, i) ==
    IF i > Len(list) THEN <<>>
    ELSE (IF i = 1 THEN <<>> ELSE <<Tok(",")>>)
         \o StringifyObject(list[i]) \o StringifyElements(list, i + 1)

\* JSON.stringify(list, null, 2)
JSONStringify(list) == <<Tok("[")>> \o StringifyElements(list, 1) \o <<Tok("]")>>

ParseFail == [ok |-> FALSE, isArray |-> FALSE, val |-> <<>>, next |-> 0]

RECURSIVE ParseMembers(_, _, _)
\* at t[i] a key is expected
ParseMembers(t, i, obj) ==
    IF i + 3 > Len(t) THEN ParseFail
    ELSE IF t[i].t = "key" /\ t[i + 1].t = ":" /\ t[i + 2].t = "lit"
    THEN LET o2 == Merge(obj, t[i].name :> t[i + 2].v)
         IN  IF t[i + 3].t = "," THEN ParseMembers(t, i + 4, o2)
             ELSE IF t[i + 3].t = "}"
             THEN [ok |-> TRUE, isArray |-> FALSE, val |-> o2, next |-> i + 4]
             ELSE ParseFail
    ELSE ParseFail

ParseObject(t, i) ==
    IF i + 1 > Len(t) \/ t[i].t # "{" THEN ParseFail
    ELSE IF t[i + 1].t = "}"
    THEN [ok |-> TRUE, isArray |-> FALSE, val |-> EmptyDoc, next |-> i + 2]
    ELSE ParseMembers(t, i + 1, EmptyDoc)

RECURSIVE ParseElements(_, _, _)
\* at t[i] an element of the array is expected
ParseElements(t, i, acc) ==
    LET r == ParseObject(t, i)
    IN  IF ~r.ok \/ r.next > Len(t) THEN ParseFail
        ELSE IF t[r.next].t = "," THEN ParseElements(t, r.next + 1, Append(acc, r.val))
        ELSE IF t[r.next].t = "]" /\ r.next = Len(t)
        THEN [ok |-> TRUE, isArray |-> TRUE, val |-> Append(acc, r.val), next |-> r.next + 1]
        ELSE ParseFail

\* JSON.parse(txt): ok = it did not throw; isArray = Array.isArray of the
\* result; val = the elements when the result is an array of objects.
JSONParse(t) ==
    IF t = <<>> THEN ParseFail
    ELSE IF t[1].t = "["
    THEN IF Len(t) = 2 /\ t[2].t = "]"
         THEN [ok |-> TRUE, isArray |-> TRUE, val |-> <<>>, next |-> 3]
         ELSE ParseElements(t, 2, <<>>)
    ELSE IF t[1].t = "{"
    THEN LET r == ParseObject(t, 1)
         IN  IF r.ok /\ r.next = Len(t) + 1 THEN r ELSE ParseFail
    ELSE IF Len(t) = 1 /\ t[1].t = "lit"
    THEN [ok |-> TRUE, isArray |-> FALSE, val |-> <<>>, next |-> 2]
    ELSE ParseFail

(***************************************************************************)
(* The backing file.  state "missing": no file at filePath; "locked": the  *)
(* process is denied access, readFileSync and writeFileSync throw;         *)
(* "file": a regular file holding txt.                                     *)
(***************************************************************************)
MissingFile == [state |-> "missing", txt |-> <<>>]
RegularFile(txt) == [state |-> "file", txt |-> txt]

\* fs.writeFileSync(this.filePath, '[]', 'utf8') when the file is absent
EnsureStorage(f) == IF f.state = "missing" THEN RegularFile(<<Tok("["), Tok("]")>>) ELSE f

\* _readAll without its try/catch
ReadAll_NoCatch(f) ==
    IF f.state # "file" \/ ~JSONParse(f.txt).ok THEN [list |-> <<>>, threw |-> TRUE]
    ELSE LET data == JSONParse(f.txt)
         IN  [list |-> IF data.isArray THEN data.val ELSE <<>>, threw |-> FALSE]

\* _readAll(): list = the value returned, threw = an error reached the caller
ReadAll(f) ==
    IF f.state # "file" THEN [list |-> <<>>, threw |-> FALSE]
    ELSE LET data == JSONParse(f.txt)
         IN  IF data.ok /\ data.isArray
             THEN [list |-> data.val, threw |-> FALSE]
             ELSE [list |-> <<>>, threw |-> FALSE]

\* _writeAll(list): the file afterwards, threw = writeFileSync threw
WriteAll(f, list) ==
    IF f.state = "locked" THEN [file |-> f, threw |-> TRUE]
    ELSE [file |-> RegularFile(JSONStringify(list)), threw |-> FALSE]

\* d.id === key
IdIs(d, key) == "id" \in DOMAIN d /\ StrictEq(d["id"], key)

\* { id: Date.now(), ...doc }
NewRecord(t, doc) == Merge("id" :> JsNum(t), doc)

\* the new record placed first instead of last
Push_Unshift(list, novo) == <<novo>> \o list

\* list.push(novo)
Push(list, novo) == Append(list, novo)

\* list.map((d) => (d.id === key ? { ...d, ...patch } : d))
Updated(list, key, patch) ==
    [i \in DOMAIN list |-> IF IdIs(list[i], key) THEN Merge(list[i], patch) ELSE list[i]]

\* list.filter((d) => d.id !== key)
Filtered(list, key) == SelectSeq(list, LAMBDA d : ~IdIs(d, key))

(***************************************************************************)
(* Inputs.                                                                 *)
(***************************************************************************)
NomeA == JsStr(<<"A">>)
NomeB == JsStr(<<"B">>)

\* bodies of POST /diagnosticos
Docs == {"nome" :> NomeA, ("id" :> JsNum(1)) @@ ("nome" :> NomeA)}

\* bodies of PUT /diagnosticos/:id
Patches == {"nome" :> NomeB, "id" :> JsNum(2)}

\* id arguments: numbers (direct calls) and strings (req.params.id)
IdArgs == {JsNum(n) : n \in 1..MaxTime}
          \cup {JsStr(<<"1">>), JsStr(<<"2", "x">>), JsStr(<<"x">>)}

\* what an outside process can leave at filePath
GarbageText == <<Tok("["), Tok("{")>>
ObjectText == <<Tok("{"), KeyTok("nome"), Tok(":"), LitTok(NomeA), Tok("}")>>
ScalarText == <<LitTok(JsNum(7))>>
BadTexts == {<<>>, GarbageText, ObjectText, ScalarText}

NoCall == [op |-> "none", id |-> JsNull, doc |-> EmptyDoc, at |-> 0,
           before |-> MissingFile, list |-> <<>>,
           ret |-> EmptyDoc, retList |-> <<>>, raised |-> FALSE]

(***************************************************************************)
(* Repository operations.                                                  *)
(***************************************************************************)
List ==
    /\ last' = [NoCall EXCEPT !.op = "list", !.at = now, !.before = file,
                              !.list = ReadAll(file).list,
                              !.retList = ReadAll(file).list,
                              !.raised = ReadAll(file).threw]
    /\ UNCHANGED <<file, now>>

Create(doc) ==
    LET r == ReadAll(file)
        novo == NewRecord(now, doc)
        w == WriteAll(file, Push(r.list, novo))
    IN  /\ Len(r.list) < MaxRecords
        /\ file' = w.file
        /\ last' = [NoCall EXCEPT !.op = "create", !.doc = doc, !.at = now,
                                  !.before = file, !.list = r.list,
                                  !.ret = novo, !.raised = r.threw \/ w.threw]
        /\ UNCHANGED now

Update(id, patch) ==
    LET r == ReadAll(file)
        key == ParseInt(id)
        w == WriteAll(file, Updated(r.list, key, patch))
    IN  /\ file' = w.file
        /\ last' = [NoCall EXCEPT !.op = "update", !.id = id, !.doc = patch, !.at = now,
                                  !.before = file, !.list = r.list,
                                  !.raised = r.threw \/ w.threw]
        /\ UNCHANGED now

Delete(id) ==
    LET r == ReadAll(file)
        key == ParseInt(id)
        w == WriteAll(file, Filtered(r.list, key))
    IN  /\ file' = w.file
        /\ last' = [NoCall EXCEPT !.op = "delete", !.id = id, !.at = now,
                                  !.before = file, !.list = r.list,
                                  !.raised = r.threw \/ w.threw]
        /\ UNCHANGED now

\* Date.now() advances
Tick ==
    /\ now < MaxTime
    /\ now' = now + 1
    /\ UNCHANGED <<file, last>>

\* another process removes, locks or overwrites the file
Tamper ==
    /\ \/ file' = MissingFile
       \/ file' = [state |-> "locked", txt |-> file.txt]
       \/ \E t \in BadTexts : file' = RegularFile(t)
    /\ file' # file
    /\ last' = NoCall
    /\ UNCHANGED now

(***************************************************************************)
(* PredictionClient.  A URL is a sequence of pieces, "/" a piece of its    *)
(* own.  A payload is a JavaScript value named by its tag.                 *)
(***************************************************************************)
Host == "http://localhost:5000"
DefaultUrl == <<Host>>
Urls == {<<Host>>, <<Host, "/">>, <<Host, "/", "/">>}

\* baseUrl.endsWith('/') ? baseUrl.slice(0, -1) : baseUrl
Normalize(url) ==
    IF url # <<>> /\ url[Len(url)] = "/" THEN SubSeq(url, 1, Len(url) - 1) ELSE url

PayloadTags == {"null", "undefined", "emptyString", "string", "zero", "number",
                "false", "true", "object", "emptyObject", "array"}

\* typeof p
Typeof(p) ==
    CASE p \in {"null", "object", "emptyObject", "array"} -> "object"
      [] p = "undefined" -> "undefined"
      [] p \in {"emptyString", "string"} -> "string"
      [] p \in {"zero", "number"} -> "number"
      [] p \in {"false", "true"} -> "boolean"

\* !p
Falsy(p) == p \in {"null", "undefined", "emptyString", "zero", "false"}

\* the shape check without its null test
InvalidPayload_TypeofOnly(p) == Typeof(p) # "object"

\* !payload || typeof payload !== 'object'
InvalidPayload(p) == Falsy(p) \/ Typeof(p) # "object"

DiagnoseTimeout == 8000
RetrainTimeout == 20000
InvalidMsg == <<"Payload inválido para predição.">>
DiagnosePrefix == "Falha ao chamar serviço de predição: "
RetrainPrefix == "Falha ao re-treinar modelo: "

Bodies == {"body1", "body2"}
Causes == {"timeout of 8000ms exceeded", "ECONNREFUSED"}

NoReply == [ok |-> FALSE, data |-> "", message |-> ""]
Replies == {[ok |-> TRUE, data |-> b, message |-> ""] : b \in Bodies}
           \cup {[ok |-> FALSE, data |-> "", message |-> c] : c \in Causes}

NoOutcome == [kind |-> "none", data |-> "", msg |-> <<>>]
Returned(b) == [kind |-> "returned", data |-> b, msg |-> <<>>]
Raised(m) == [kind |-> "raised", data |-> "", msg |-> m]

Post(url, body, timeout) == [url |-> url, body |-> body, timeout |-> timeout]

InitClientAt(url) ==
    /\ baseUrl = Normalize(url)
    /\ phase = "idle"
    /\ op = "none"
    /\ payload = "undefined"
    /\ attempts = 0
    /\ outbound = <<>>
    /\ reply = NoReply
    /\ outcome = NoOutcome
    /\ invocations = 0

\* diagnose(payload) up to its throw or its await
Diagnose(p) ==
    /\ phase # "awaiting" /\ phase # "settled"
    /\ invocations < MaxInvocations
    /\ invocations' = invocations + 1
    /\ op' = "diagnose"
    /\ payload' = p
    /\ reply' = NoReply
    /\ IF InvalidPayload(p)
       THEN /\ phase' = "done"
            /\ attempts' = 0
            /\ outcome' = Raised(InvalidMsg)
            /\ UNCHANGED outbound
       ELSE /\ phase' = "awaiting"
            /\ attempts' = 1
            /\ outcome' = NoOutcome
            /\ outbound' = Append(outbound,
                                  Post(baseUrl \o <<"/predict">>, p, DiagnoseTimeout))
    /\ UNCHANGED baseUrl

\* retrain() up to its await
Retrain ==
    /\ phase # "awaiting" /\ phase # "settled"
    /\ invocations < MaxInvocations
    /\ invocations' = invocations + 1
    /\ op' = "retrain"
    /\ payload' = "undefined"
    /\ reply' = NoReply
    /\ phase' = "awaiting"
    /\ attempts' = 1
    /\ outcome' = NoOutcome
    /\ outbound' = Append(outbound, Post(baseUrl \o <<"/train">>, "emptyObject", RetrainTimeout))
    /\ UNCHANGED baseUrl

\* the promise of axios.post resolves or rejects
PostSettles(r) ==
    /\ phase = "awaiting"
    /\ reply' = r
    /\ phase' = "settled"
    /\ UNCHANGED <<baseUrl, op, payload, attempts, outbound, outcome, invocations>>

\* the method resumes after its await: return res.data, or the catch block
Resume ==
    /\ phase = "settled"
    /\ outcome' = IF reply.ok
                  THEN Returned(reply.data)
                  ELSE Raised(<<IF op = "diagnose" THEN DiagnosePrefix ELSE RetrainPrefix,
                                reply.message>>)
    /\ phase' = "done"
    /\ UNCHANGED <<baseUrl, op, payload, attempts, outbound, reply, invocations>>

InitClient ==
    /\ file = EnsureStorage(MissingFile)
    /\ now = 1
    /\ last = NoCall
    /\ \E url \in Urls : InitClientAt(url)

NextClient ==
    \/ (\E p \in PayloadTags : Diagnose(p) /\ UNCHANGED repoVars)
    \/ (Retrain /\ UNCHANGED repoVars)
    \/ (\E r \in Replies : PostSettles(r) /\ UNCHANGED repoVars)
    \/ (Resume /\ UNCHANGED repoVars)

SpecClient == InitClient /\ [][NextClient]_vars

Init ==
    /\ \E f \in {MissingFile} \cup {RegularFile(t) : t \in BadTexts} : file = EnsureStorage(f)
    /\ now = 1
    /\ last = NoCall
    /\ InitClientAt(DefaultUrl)

Next ==
    \/ (List /\ UNCHANGED clientVars)
    \/ (\E doc \in Docs : Create(doc) /\ UNCHANGED clientVars)
    \/ (\E id \in IdArgs, patch \in Patches : Update(id, patch) /\ UNCHANGED clientVars)
    \/ (\E id \in IdArgs : Delete(id) /\ UNCHANGED clientVars)
    \/ (Tick /\ UNCHANGED clientVars)
    \/ (Tamper /\ UNCHANGED clientVars)

Spec == Init /\ [][Next]_vars

(***************************************************************************)
(* Properties.                                                             *)
(***************************************************************************)
\* the collection a list() call would return now
Coll == ReadAll(file).list

\* the file holds a JSON array
Readable(f) == f.state = "file" /\ f.txt # <<>> /\ f.txt[1].t = "[" /\ f.txt # GarbageText

\* the backing data is missing, inaccessible, unparsable or not a list
Bad(f) == f.state \in {"missing", "locked"} \/ f.txt \in BadTexts

RemoveAt(s, p) == SubSeq(s, 1, p - 1) \o SubSeq(s, p + 1, Len(s))

RECURSIVE DecimalText(_)
DecimalText(n) ==
    IF n < 10 THEN <<Digits[n + 1]>> ELSE DecimalText(n \div 10) \o <<Digits[(n % 10) + 1]>>

\* record d carries the id k: the same value, or k is the decimal text of d's number
Carries(d, k) ==
    /\ "id" \in DOMAIN d
    /\ \/ d["id"] = k
       \/ k.kind = "str" /\ d["id"].kind = "num" /\ d["id"].num >= 0
          /\ k.str = DecimalText(d["id"].num)

IdsOf(list) == {list[i]["id"] : i \in DOMAIN list}

\* C1: no two records of the persisted collection have the same id.
C1_UniqueIds ==
    \A i, j \in DOMAIN Coll : i # j => Coll[i]["id"] # Coll[j]["id"]

\* C2: the id of the record returned and persisted by create is the id the
\* store assigned (the clock value), whatever id the caller supplied.
C2_CallerIdOverwritten ==
    last.op = "create" /\ ~last.raised =>
        /\ last.ret["id"] = JsNum(last.at)
        /\ Coll[Len(Coll)]["id"] = JsNum(last.at)

\* C3: update leaves the id of the record at every position as it was, and
\* neither create nor update removes an id from the collection.
C3_IdImmutable ==
    /\ last.op = "update" /\ ~last.raised =>
           /\ Len(Coll) = Len(last.list)
           /\ \A i \in DOMAIN last.list : Coll[i]["id"] = last.list[i]["id"]
    /\ last.op \in {"create", "update"} /\ ~last.raised => IdsOf(last.list) \subseteq IdsOf(Coll)

\* C5: on a readable collection C, create(fields) raises nothing, persists C
\* followed by the new record, returns that record with the caller's non-id
\* fields and an id, and a following list() contains it.
C5_CreateAppends ==
    last.op = "create" /\ Readable(last.before) =>
        /\ ~last.raised
        /\ last.list = JSONParse(last.before.txt).val
        /\ file = RegularFile(JSONStringify(last.list \o <<last.ret>>))
        /\ Coll = last.list \o <<last.ret>>
        /\ "id" \in DOMAIN last.ret
        /\ \A k \in DOMAIN last.doc \ {"id"} : k \in DOMAIN last.ret /\ last.ret[k] = last.doc[k]
        /\ \E i \in DOMAIN Coll : Coll[i] = last.ret

C5_Witness ==
    /\ last.op = "create" /\ Readable(last.before)
    /\ Len(last.list) >= 2
    /\ last.list[1] # last.list[2]
    /\ "id" \in DOMAIN last.doc

\* C6: update(k, patch) on a collection holding a record r with id k persists
\* a collection of the same length where r's position holds the merge of r
\* and patch and every other position is as before.
C6_UpdateOnlyTarget ==
    last.op = "update" /\ Readable(last.before) =>
        \A p \in DOMAIN last.list :
            last.list[p]["id"] = last.id =>
                /\ Len(Coll) = Len(last.list)
                /\ Coll[p] = Merge(last.list[p], last.doc)
                /\ \A q \in DOMAIN last.list \ {p} : Coll[q] = last.list[q]

\* C7: update and delete with an id that no record of the readable collection
\* carries raise nothing and persist the collection as it was.
C7_NotFoundNoOp ==
    /\ last.op \in {"update", "delete"}
    /\ Readable(last.before)
    /\ \A p \in DOMAIN last.list : ~Carries(last.list[p], last.id)
    => ~last.raised /\ Coll = last.list

\* C8: delete(k) on a collection holding a record with id k persists the
\* collection without that one record, the others as before and in order,
\* and no record with id k is listed afterwards.
C8_DeleteOnlyTarget ==
    last.op = "delete" /\ Readable(last.before) =>
        \A p \in DOMAIN last.list :
            last.list[p]["id"] = last.id =>
                /\ Coll = RemoveAt(last.list, p)
                /\ \A i \in DOMAIN Coll : Coll[i]["id"] # last.id

\* the payload is a non-null object
StructuredObject(p) == p \in {"object", "emptyObject", "array"}

\* C9: a diagnose call makes no outbound call and fails with the
\* invalid-payload error when the payload is null or not an object; otherwise
\* it makes exactly one call, to {base}/predict, and ends with the remote body
\* or with the prefixed cause; it never makes a second call.
C9_DiagnoseCallCount ==
    op = "diagnose" =>
        /\ attempts <= 1
        /\ ~StructuredObject(payload) =>
               /\ attempts = 0
               /\ phase = "done"
               /\ outcome = Raised(InvalidMsg)
        /\ StructuredObject(payload) =>
               /\ attempts = 1
               /\ outbound[Len(outbound)] =
                      Post(baseUrl \o <<"/predict">>, payload, DiagnoseTimeout)
               /\ phase = "done" /\ reply.ok => outcome = Returned(reply.data)
               /\ phase = "done" /\ ~reply.ok =>
                      outcome = Raised(<<DiagnosePrefix, reply.message>>)
        /\ Len(outbound) <= invocations

C9_Witness ==
    /\ op = "diagnose" /\ phase = "done"
    /\ StructuredObject(payload) /\ ~reply.ok
    /\ invocations = 2 /\ Len(outbound) = 1

\* C10: list() on backing data that is missing, inaccessible, unparsable or
\* not a list returns the empty collection, raises nothing and leaves the
\* data as it was; every read of such data is empty.
C10_FailOpenRead ==
    /\ last.op = "list" /\ Bad(last.before) =>
           /\ last.retList = <<>>
           /\ ~last.raised
           /\ file = last.before
    /\ Bad(file) => ReadAll(file) = [list |-> <<>>, threw |-> FALSE]

C10_Witness ==
    /\ last.op = "list"
    /\ last.before = RegularFile(ObjectText)
    /\ last.at > 1
====
